---- MODULE Spec2Model ----
(***************************************************************************)
(* Model of the /simulate endpoint of blochain-simulator.py: the handler   *)
(* deploys a contract with one external `cast send --create` command and   *)
(* then sends one `cast send` command per transaction of the request.      *)
(* A request is handled from its entry to the first external command in    *)
(* one step, and then one step per external command (the handler blocks   *)
(* on subprocess.run, so these are its only interleaving points).          *)
(***************************************************************************)
EXTENDS Integers, Sequences, FiniteSets, TLC

\* ------------------------------------------------------------------ bounds
MaxTxs == 2        \* longest `transactions` list of a request
MaxStrLen == 2     \* longest captured stderr text
NumReqs == 2       \* request slots of the service
MaxStops == 2      \* most calls of cleanup() tried on the node supervisor
NumAnalyses == 2   \* request slots of the analyzer service

Reqs == 1..NumReqs
SeqReqs == {1}     \* the slot used when requests are handled one at a time

\* ------------------------------------------------------- JSON / Python data
\* A JSON scalar as Python sees it: its type and its text.
JStr(v) == [t |-> "str", v |-> v]
JNum(v) == [t |-> "num", v |-> v]
JNull == [t |-> "null", v |-> ""]

\* Python truthiness, as used by `if not PRIVATE_KEY` and `if not bytecode`.
Truthy(j) ==
    CASE j.t = "null" -> FALSE
      [] j.t = "str" -> j.v # ""
      [] j.t = "num" -> j.v # "0"

\* Texts (captured stderr) are sequences of characters.
Alphabet == {" ", "x"}
Whitespace == {" "}
Strings == UNION {[1..n -> Alphabet] : n \in 0..MaxStrLen}

RECURSIVE lstrip(_)
lstrip(s) == IF s # <<>> /\ Head(s) \in Whitespace THEN lstrip(Tail(s)) ELSE s

RECURSIVE rstrip(_)
rstrip(s) ==
    IF s # <<>> /\ s[Len(s)] \in Whitespace
    THEN rstrip(SubSeq(s, 1, Len(s) - 1))
    ELSE s

\* str.strip()
strip(s) == rstrip(lstrip(s))

\* ------------------------------------------------------------- transactions
\* One item of the `transactions` list: its JSON type, the keys it has when
\* it is an object, and the values under those keys.
TxItem(type, keys, sig, argsType, args) ==
    [type |-> type, keys |-> keys, function_signature |-> sig,
     argsType |-> argsType, args |-> args]

BothKeys == {"function_signature", "args"}

TxCall1 == TxItem("dict", BothKeys, JStr("set(uint256)"), "list", <<JStr("1")>>)
TxCall0 == TxItem("dict", BothKeys, JStr("inc()"), "list", <<>>)
TxNotObject == TxItem("str", {}, JNull, "none", <<>>)
TxNoSignature == TxItem("dict", {"args"}, JNull, "list", <<>>)
TxNoArgs == TxItem("dict", {"function_signature"}, JStr("inc()"), "none", <<>>)
TxArgsNotList == TxItem("dict", BothKeys, JStr("inc()"), "str", <<>>)
TxSigNumber == TxItem("dict", BothKeys, JNum("7"), "list", <<>>)

TxItems ==
    {TxCall1, TxCall0, TxNotObject, TxNoSignature, TxNoArgs, TxArgsNotList,
     TxSigNumber}

\* The shape test without its last disjunct, `not isinstance(tx['args'], list)`.
InvalidFormat_ArgsUnchecked(tx) ==
    \/ tx.type # "dict"
    \/ "function_signature" \notin tx.keys
    \/ "args" \notin tx.keys

\* The shape test of the loop (the condition of line 72).
InvalidFormat(tx) ==
    \/ tx.type # "dict"
    \/ "function_signature" \notin tx.keys
    \/ "args" \notin tx.keys
    \/ tx.argsType # "list"

\* ------------------------------------------------------------------ payload
\* request.json: a JSON object with optional keys, or something else.
Payload(isObject, keys, bytecode, iterable, txs) ==
    [isObject |-> isObject, keys |-> keys, bytecode |-> bytecode,
     iterable |-> iterable, transactions |-> txs]

NoPayload == Payload(FALSE, {}, JNull, FALSE, <<>>)

Bytecodes == {JNull, JStr(""), JStr("0x6080"), JNum("5")}

TxLists == UNION {[1..n -> TxItems] : n \in 0..MaxTxs}

Payloads ==
    {NoPayload}
    \cup {Payload(TRUE, {}, JNull, FALSE, <<>>)}
    \cup {Payload(TRUE, {"bytecode"}, b, FALSE, <<>>) : b \in Bytecodes}
    \cup {Payload(TRUE, {"transactions"}, JNull, TRUE, l) : l \in TxLists}
    \cup {Payload(TRUE, {"bytecode", "transactions"}, b, FALSE, <<>>) :
            b \in Bytecodes}
    \cup {Payload(TRUE, {"bytecode", "transactions"}, b, TRUE, l) :
            b \in Bytecodes, l \in TxLists}

\* data.get('bytecode')
GetBytecode(data) == IF "bytecode" \in data.keys THEN data.bytecode ELSE JNull

\* data.get('transactions', []): the items enumerate() yields, when the value
\* can be iterated.
TransactionsIterable(data) == "transactions" \notin data.keys \/ data.iterable
GetTransactions(data) ==
    IF "transactions" \in data.keys THEN data.transactions ELSE <<>>

\* ----------------------------------------------------------------- commands
RPC_URL == "http://127.0.0.1:8545"

deploy_cmd(key, bytecode) ==
    <<JStr("cast"), JStr("send"), JStr("--private-key"), key,
      JStr("--rpc-url"), JStr(RPC_URL), JStr("--json"), JStr("--create"),
      bytecode>>

\* The function signature put before the contract address.
send_cmd_SignatureFirst(key, address, tx) ==
    <<JStr("cast"), JStr("send"), JStr("--private-key"), key,
      JStr("--rpc-url"), JStr(RPC_URL), JStr("--json"),
      tx.function_signature, JStr(address)>> \o tx.args

send_cmd(key, address, tx) ==
    <<JStr("cast"), JStr("send"), JStr("--private-key"), key,
      JStr("--rpc-url"), JStr(RPC_URL), JStr("--json"), JStr(address),
      tx.function_signature>> \o tx.args

\* subprocess.run raises TypeError, before starting anything, on an argument
\* that is not a string.
ArgvOk(cmd) == \A k \in 1..Len(cmd) : cmd[k].t = "str"

\* The standard output of a command: text that json.loads parses to an
\* object with the given keys, or text that it cannot parse.
Stdout(parses, keys, address, gas, hash) ==
    [parses |-> parses, keys |-> keys, contractAddress |-> address,
     gasUsed |-> gas, transactionHash |-> hash]

NoStdout == Stdout(FALSE, {}, "", "", "")

DeployStdouts ==
    {NoStdout,
     Stdout(TRUE, {}, "", "", ""),
     Stdout(TRUE, {"contractAddress", "gasUsed"}, "0xA1", "21000", ""),
     Stdout(TRUE, {"contractAddress"}, "0xA2", "", "")}

TxStdouts ==
    {NoStdout,
     Stdout(TRUE, {}, "", "", ""),
     Stdout(TRUE, {"transactionHash"}, "", "", "0xh1"),
     Stdout(TRUE, {"transactionHash"}, "", "", "0xh2")}

\* What subprocess.run(..., check=True, timeout=30) does: it returns with
\* exit status 0, or raises CalledProcessError (non-zero exit status, with
\* the captured stderr), TimeoutExpired or FileNotFoundError.
RunResult(kind, stderr, stdout) ==
    [kind |-> kind, stderr |-> stderr, stdout |-> stdout]

RunResults(stdouts) ==
    {RunResult("ok", <<>>, out) : out \in stdouts}
    \cup {RunResult("CalledProcessError", e, NoStdout) : e \in Strings}
    \cup {RunResult("TimeoutExpired", <<>>, NoStdout),
          RunResult("FileNotFoundError", <<>>, NoStdout)}

\* One entry of the record of external command invocations of a request.
Call(op, index, argv, result) ==
    [op |-> op, index |-> index, argv |-> argv, result |-> result]

Pending == RunResult("pending", <<>>, NoStdout)

\* ---------------------------------------------------------------- responses
\* jsonify(body), status: the keys of the body and the values under them.
Response(status, keys, error, details, index, gas, address, outcomes) ==
    [status |-> status, keys |-> keys, error |-> error, details |-> details,
     index |-> index, deployment_gas_used |-> gas,
     contract_address |-> address, outcomes |-> outcomes]

NoResponse == Response(0, {}, "", <<>>, -1, "", "", <<>>)

\* line 39
ConfigErrorResponse ==
    Response(500, {"error"},
             "Server configuration error: Private key not set.",
             <<>>, -1, "", "", <<>>)

\* line 47
MissingBytecodeResponse ==
    Response(400, {"error"}, "Invalid payload: 'bytecode' key is missing.",
             <<>>, -1, "", "", <<>>)

\* line 73; the index is part of the message
InvalidFormatResponse(index) ==
    Response(400, {"error"}, "Invalid format for transaction at index",
             <<>>, index, "", "", <<>>)

\* The handler of line 97 left out: the failure falls to the one of line 99.
DeploymentFailedResponse_Generic(stderr) ==
    Response(500, {"error", "details"}, "An internal server error occurred.",
             <<"CalledProcessError">>, -1, "", "", <<>>)

\* line 98
DeploymentFailedResponse(stderr) ==
    Response(400, {"error", "details"}, "Contract deployment failed.",
             strip(stderr), -1, "", "", <<>>)

\* A status of its own for the errors of line 100.
InternalErrorResponse_504(exc) ==
    Response(504, {"error", "details"}, "An internal server error occurred.",
             <<exc>>, -1, "", "", <<>>)

\* line 100; str(e) is modelled by the class of the exception
InternalErrorResponse(exc) ==
    Response(500, {"error", "details"}, "An internal server error occurred.",
             <<exc>>, -1, "", "", <<>>)

\* simulation_results, lines 64-68
SimulationResults(gas, address, outcomes) ==
    [deployment_gas_used |-> gas, contract_address |-> address,
     outcomes |-> outcomes]

NoResults == SimulationResults("", "", <<>>)

\* deploy_info.get('gasUsed')
GetGasUsed(deploy_info) ==
    IF "gasUsed" \in deploy_info.keys THEN deploy_info.gasUsed ELSE "None"

\* The two values read from deploy_info taken one for the other.
DeployedResults_Swapped(deploy_info) ==
    SimulationResults(deploy_info.contractAddress, GetGasUsed(deploy_info),
                      <<>>)

\* lines 60-68, once json.loads and ['contractAddress'] have not raised
DeployedResults(deploy_info) ==
    SimulationResults(GetGasUsed(deploy_info), deploy_info.contractAddress,
                      <<>>)

\* line 95
ReportResponse(results) ==
    Response(200, {"deployment_gas_used", "contract_address", "outcomes"},
             "", <<>>, -1, results.deployment_gas_used,
             results.contract_address, results.outcomes)

Outcome(tx, status, hash, details) ==
    [transaction |-> tx, status |-> status, tx_hash |-> hash,
     error_details |-> details]

\* lines 85-87
SuccessOutcome(tx, tx_info) ==
    Outcome(tx, "success", tx_info.transactionHash, <<>>)

\* str(e) reported in place of e.stderr.strip().
FailedOutcome_StrE(tx, stderr) ==
    Outcome(tx, "failed", "", <<"CalledProcessError">>)

\* lines 91-93
FailedOutcome(tx, stderr) == Outcome(tx, "failed", "", strip(stderr))

\* `if PRIVATE_KEY is None` in place of `if not PRIVATE_KEY`.
KeyNotSet_NoneOnly(key) == key.t = "null"

\* line 38
KeyNotSet(key) == ~Truthy(key)

\* `if bytecode is None` in place of `if not bytecode`.
BytecodeMissing_NoneOnly(bytecode) == bytecode.t = "null"

\* line 46
BytecodeMissing(bytecode) == ~Truthy(bytecode)

\* The exceptions of a command that the request does not survive: the
\* handlers of lines 89 and 97 catch CalledProcessError only, line 99 the rest.
Uncaught(result) == result.kind \in {"TimeoutExpired", "FileNotFoundError"}

\* A failed command tried again: the index stays where it is.
NextIndex_Retry(i, result) ==
    IF result.kind = "CalledProcessError" THEN i ELSE i + 1

\* enumerate(transactions): the index after i
NextIndex(i, result) == i + 1

\* simulation_results is a local variable of simulate(): each request has its
\* own. (A module-level variable would be one slot shared by all requests.)
ResultsSlot_Shared(r) == 1

\* line 64
ResultsSlot(r) == r

\* ---------------------------------------------------------- node supervisor
\* ANVIL_PROCESS is None ("None"), or the Popen object of a node process that
\* is running or has been terminated.
NodeStates == {"None", "running", "terminated"}

\* ANVIL_PROCESS.terminate(); ANVIL_PROCESS.wait(): the state of the process
\* afterwards, and whether the calls raised. Popen.terminate() does nothing
\* to a process that has already been waited for; None has no terminate().
terminate_wait_Reset(p) == [state |-> "None", raised |-> p = "None"]

terminate_wait(p) ==
    [state |-> IF p = "None" THEN p ELSE "terminated", raised |-> p = "None"]

\* `if ANVIL_PROCESS:` without its test.
HasProcess_Always(p) == TRUE

\* line 28
HasProcess(p) == p # "None"

\* cleanup(), lines 27-31
cleanup(p) ==
    IF HasProcess(p) THEN terminate_wait(p) ELSE [state |-> p, raised |-> FALSE]

\* ---------------------------------------------------------------- analyzer
\* security-analyzer.py, the /analyze endpoint.
AReqs == 1..NumAnalyses
OneAnalysis == {1}    \* the slot of an analyze request run in isolation

\* request.get_json(): it raises, or gives a value that is falsy (None, {}),
\* an object without 'code', or an object with a 'code' of some type.
Body(kind, type, code) == [kind |-> kind, type |-> type, code |-> code]

NoBody == Body("falsy", "none", <<>>)

Bodies ==
    {NoBody, Body("raises", "none", <<>>), Body("nocode", "none", <<>>),
     Body("code", "num", <<>>)}
    \cup {Body("code", "str", c) : c \in Strings}

\* lines 22-34: the request is answered 400
Rejected(body) ==
    \/ body.kind # "code"
    \/ body.type # "str"
    \/ strip(body.code) = <<>>

\* The file at file_path: whether it exists, and what it holds.
File(exists, content) == [exists |-> exists, content |-> content]
NoFile == File(FALSE, <<>>)

\* lines 41-42
write_file(code) == File(TRUE, code)

\* The finally clause left out.
remove_file_Skipped(f) == f

\* lines 84-85
remove_file(f) == IF f.exists THEN NoFile ELSE f

\* What the slither process found at file_path when it opened it.
Read(done, found, content) ==
    [done |-> done, found |-> found, content |-> content]
NotRead == Read(FALSE, FALSE, <<>>)

\* subprocess.run(command, capture_output=True, text=True, timeout=60): it
\* returns a return code, stdout and stderr, or raises.
SlitherResult(kind, returncode, stdout, stderr) ==
    [kind |-> kind, returncode |-> returncode, stdout |-> stdout,
     stderr |-> stderr]

\* stdout is empty, a JSON report, or text that json.loads cannot parse.
SlitherStdouts == {"", "{report}", "garbage"}

SlitherResults ==
    {SlitherResult("returned", rc, out, <<>>) :
        rc \in {0, 1}, out \in SlitherStdouts}
    \cup {SlitherResult("returned", 1, "", e) : e \in Strings}
    \cup {SlitherResult(k, 0, "", <<>>) :
            k \in {"TimeoutExpired", "FileNotFoundError", "OSError"}}

Analysis(status, error, report, details) ==
    [status |-> status, error |-> error, report |-> report,
     details |-> details]

NoAnalysis == Analysis(0, "", "", <<>>)

\* lines 26, 31, 34
InvalidRequest == Analysis(400, "Invalid request.", "", <<>>)

\* lines 49-80: the response for the result of the slither command
AnalysisOf(result) ==
    CASE result.kind = "FileNotFoundError" ->
            Analysis(500, "Server configuration error: Slither is not installed.",
                     "", <<>>)
      [] result.kind = "TimeoutExpired" ->
            Analysis(500, "Analysis timed out after 60 seconds.", "", <<>>)
      [] result.kind = "OSError" ->
            Analysis(500, "An unexpected server error occurred.", "",
                     <<"OSError">>)
      [] result.kind = "returned" ->
            IF result.returncode # 0 /\ result.stdout = ""
            THEN Analysis(500, "Slither execution failed.", "", result.stderr)
            ELSE IF result.stdout # "{report}"
            THEN Analysis(500, "Failed to parse Slither's output.",
                          result.stdout, <<>>)
            ELSE Analysis(200, "", result.stdout, <<>>)

\* ------------------------------------------------------------------- state
VARIABLES
    service,              \* the service: loading, serving, stopping, exited
    ANVIL_PROCESS,        \* the module-level node process
    stops,                \* how many times cleanup() has been called
    raised,               \* whether a call of cleanup() raised
    PRIVATE_KEY,          \* the module-level credential, read once at start
    pc,                   \* where each request's handler is
    request,              \* request.json of each request
    simulation_results,   \* the report each handler is building
    i,                    \* the loop index of each handler
    response,             \* what each handler returned
    calls,                \* the external commands each request has started
    apc,                  \* where each analyze request's handler is
    request_json,         \* request.get_json() of each analyze request
    tmp_file,             \* the file /tmp/Contract.sol
    wrote,                \* whether the analyze request has written the file
    slither_read,         \* what the analyzer run of each request read
    analysis              \* what each analyze handler returned

supervisor == <<service, ANVIL_PROCESS, stops, raised>>
handlers == <<pc, request, simulation_results, i, response, calls>>

analyzer == <<apc, request_json, tmp_file, wrote, slither_read, analysis>>

vars == <<supervisor, PRIVATE_KEY, handlers, analyzer>>

Keys == {JNull, JStr(""), JStr("0xkey")}

InitAnalyzer ==
    /\ apc = [a \in AReqs |-> "idle"]
    /\ request_json = [a \in AReqs |-> NoBody]
    /\ tmp_file = NoFile
    /\ wrote = [a \in AReqs |-> FALSE]
    /\ slither_read = [a \in AReqs |-> NotRead]
    /\ analysis = [a \in AReqs |-> NoAnalysis]

Init ==
    /\ InitAnalyzer
    /\ service = "loading"
    /\ ANVIL_PROCESS = "None"
    /\ stops = 0
    /\ raised = FALSE
    /\ PRIVATE_KEY \in Keys
    /\ pc = [r \in Reqs |-> "idle"]
    /\ request = [r \in Reqs |-> NoPayload]
    /\ simulation_results = [r \in Reqs |-> NoResults]
    /\ i = [r \in Reqs |-> 0]
    /\ response = [r \in Reqs |-> NoResponse]
    /\ calls = [r \in Reqs |-> <<>>]

\* The handler returns `resp`.
Return(r, resp, results, j, log) ==
    /\ pc' = [pc EXCEPT ![r] = "done"]
    /\ response' = [response EXCEPT ![r] = resp]
    /\ simulation_results' =
           [simulation_results EXCEPT ![ResultsSlot(r)] = results]
    /\ i' = [i EXCEPT ![r] = j]
    /\ calls' = [calls EXCEPT ![r] = log]

\* The handler starts an external command and blocks in subprocess.run.
Block(r, at, results, j, log) ==
    /\ pc' = [pc EXCEPT ![r] = at]
    /\ UNCHANGED response
    /\ simulation_results' =
           [simulation_results EXCEPT ![ResultsSlot(r)] = results]
    /\ i' = [i EXCEPT ![r] = j]
    /\ calls' = [calls EXCEPT ![r] = log]

\* The result of the command the request is blocked on.
Completed(log, result) == [log EXCEPT ![Len(log)].result = result]

\* The loop of lines 71-95 from index j on, up to the next external command
\* or the response.
LoopFrom(r, j, results, log) ==
    LET data == request[r]
        txs == GetTransactions(data)
    IN  IF ~TransactionsIterable(data)
        THEN Return(r, InternalErrorResponse("TypeError"), results, j, log)
        ELSE IF j >= Len(txs)
        THEN Return(r, ReportResponse(results), results, j, log)
        ELSE LET tx == txs[j + 1]
                 cmd == send_cmd(PRIVATE_KEY, results.contract_address, tx)
             IN  IF InvalidFormat(tx)
                 THEN Return(r, InvalidFormatResponse(j), results, j, log)
                 ELSE IF ~ArgvOk(cmd)
                 THEN Return(r, InternalErrorResponse("TypeError"), results,
                             j, log)
                 ELSE Block(r, "tx", results, j,
                            Append(log, Call("tx", j, cmd, Pending)))

\* simulate(), lines 36-59: from the entry to the deployment command.
SimulateBegin(r, data) ==
    /\ service = "serving"
    /\ pc[r] = "idle"
    /\ request' = [request EXCEPT ![r] = data]
    /\ LET bytecode == GetBytecode(data)
           cmd == deploy_cmd(PRIVATE_KEY, bytecode)
       IN  IF KeyNotSet(PRIVATE_KEY)
           THEN Return(r, ConfigErrorResponse, NoResults, 0, <<>>)
           ELSE IF ~data.isObject
           THEN Return(r, InternalErrorResponse("AttributeError"), NoResults,
                       0, <<>>)
           ELSE IF BytecodeMissing(bytecode)
           THEN Return(r, MissingBytecodeResponse, NoResults, 0, <<>>)
           ELSE IF ~ArgvOk(cmd)
           THEN Return(r, InternalErrorResponse("TypeError"), NoResults, 0,
                       <<>>)
           ELSE Block(r, "deploy", NoResults, 0,
                      <<Call("deploy", -1, cmd, Pending)>>)
    /\ UNCHANGED <<analyzer, supervisor, PRIVATE_KEY>>

\* simulate(), lines 59-73: the deployment command ends.
DeployDone(r, result) ==
    /\ service # "exited"
    /\ pc[r] = "deploy"
    /\ LET log == Completed(calls[r], result)
           out == result.stdout
       IN  IF result.kind = "CalledProcessError"
           THEN Return(r, DeploymentFailedResponse(result.stderr), NoResults,
                       0, log)
           ELSE IF Uncaught(result)
           THEN Return(r, InternalErrorResponse(result.kind), NoResults, 0,
                       log)
           ELSE IF ~out.parses
           THEN Return(r, InternalErrorResponse("JSONDecodeError"), NoResults,
                       0, log)
           ELSE IF "contractAddress" \notin out.keys
           THEN Return(r, InternalErrorResponse("KeyError"), NoResults, 0,
                       log)
           ELSE LoopFrom(r, 0, DeployedResults(out), log)
    /\ UNCHANGED <<analyzer, supervisor, PRIVATE_KEY, request>>

\* simulate(), lines 83-95: the command of transaction i ends.
TxDone(r, result) ==
    /\ service # "exited"
    /\ pc[r] = "tx"
    /\ LET log == Completed(calls[r], result)
           out == result.stdout
           results == simulation_results[ResultsSlot(r)]
           tx == GetTransactions(request[r])[i[r] + 1]
           with(o) == [results EXCEPT !.outcomes = Append(@, o)]
       IN  IF result.kind = "CalledProcessError"
           THEN LoopFrom(r, NextIndex(i[r], result),
                         with(FailedOutcome(tx, result.stderr)), log)
           ELSE IF Uncaught(result)
           THEN Return(r, InternalErrorResponse(result.kind), results, i[r],
                       log)
           ELSE IF ~out.parses
           THEN Return(r, InternalErrorResponse("JSONDecodeError"), results,
                       i[r], log)
           ELSE IF "transactionHash" \notin out.keys
           THEN Return(r, InternalErrorResponse("KeyError"), results, i[r],
                       log)
           ELSE LoopFrom(r, NextIndex(i[r], result),
                         with(SuccessOutcome(tx, out)), log)
    /\ UNCHANGED <<analyzer, supervisor, PRIVATE_KEY, request>>

\* The response has been sent; the slot takes the next request.
NextRequest(r) ==
    /\ service # "exited"
    /\ pc[r] = "done"
    /\ pc' = [pc EXCEPT ![r] = "idle"]
    /\ request' = [request EXCEPT ![r] = NoPayload]
    /\ simulation_results' =
           [simulation_results EXCEPT ![ResultsSlot(r)] = NoResults]
    /\ i' = [i EXCEPT ![r] = 0]
    /\ response' = [response EXCEPT ![r] = NoResponse]
    /\ calls' = [calls EXCEPT ![r] = <<>>]
    /\ UNCHANGED <<analyzer, supervisor, PRIVATE_KEY>>

\* Module load, lines 16-32: the node is started and cleanup is registered.
StartNode ==
    /\ service = "loading"
    /\ ANVIL_PROCESS' = "running"
    /\ service' = "serving"
    /\ UNCHANGED <<stops, raised, PRIVATE_KEY, handlers, analyzer>>

\* Module load, lines 23-25: no anvil binary; exit(1) before line 32 has
\* registered cleanup.
StartFails ==
    /\ service = "loading"
    /\ service' = "exited"
    /\ UNCHANGED <<ANVIL_PROCESS, stops, raised, PRIVATE_KEY, handlers, analyzer>>

\* The interpreter exits and atexit calls cleanup() (lines 27-32). The
\* handlers of the requests in flight run on: cleanup() neither stops nor
\* waits for them, simulate() looks neither at the node nor at the shutdown,
\* and atexit does not wait for the daemon threads of a threaded server.
Exit ==
    /\ service = "serving"
    /\ service' = "stopping"
    /\ ANVIL_PROCESS' = cleanup(ANVIL_PROCESS).state
    /\ raised' = (raised \/ cleanup(ANVIL_PROCESS).raised)
    /\ stops' = stops + 1
    /\ UNCHANGED <<PRIVATE_KEY, handlers, analyzer>>

\* cleanup() has returned and the process is gone, with its threads.
Exited ==
    /\ service = "stopping"
    /\ service' = "exited"
    /\ UNCHANGED <<ANVIL_PROCESS, stops, raised, PRIVATE_KEY, handlers, analyzer>>

\* cleanup() called directly, in any state of the supervisor.
CallCleanup ==
    /\ stops < MaxStops
    /\ ANVIL_PROCESS' = cleanup(ANVIL_PROCESS).state
    /\ raised' = (raised \/ cleanup(ANVIL_PROCESS).raised)
    /\ stops' = stops + 1
    /\ UNCHANGED <<service, PRIVATE_KEY, handlers, analyzer>>

\* analyze_security(), lines 19-49: validation, then the file is written and
\* the slither command started.
AnalyzeBegin(a, body) ==
    /\ apc[a] = "idle"
    /\ request_json' = [request_json EXCEPT ![a] = body]
    /\ IF Rejected(body)
       THEN /\ apc' = [apc EXCEPT ![a] = "done"]
            /\ analysis' = [analysis EXCEPT ![a] = InvalidRequest]
            /\ UNCHANGED <<tmp_file, wrote, slither_read>>
       ELSE /\ apc' = [apc EXCEPT ![a] = "run"]
            /\ tmp_file' = write_file(body.code)
            /\ wrote' = [wrote EXCEPT ![a] = TRUE]
            /\ UNCHANGED <<analysis, slither_read>>
    /\ UNCHANGED <<supervisor, PRIVATE_KEY, handlers>>

\* The slither process of the request opens file_path.
SlitherReads(a) ==
    /\ apc[a] = "run"
    /\ ~slither_read[a].done
    /\ slither_read' =
           [slither_read EXCEPT
               ![a] = Read(TRUE, tmp_file.exists, tmp_file.content)]
    /\ UNCHANGED <<apc, request_json, tmp_file, wrote, analysis>>
    /\ UNCHANGED <<supervisor, PRIVATE_KEY, handlers>>

\* analyze_security(), lines 49-85: the slither command ends, the response
\* is built and the finally clause removes the file.
AnalyzeDone(a, result) ==
    /\ apc[a] = "run"
    /\ apc' = [apc EXCEPT ![a] = "done"]
    /\ analysis' = [analysis EXCEPT ![a] = AnalysisOf(result)]
    /\ tmp_file' = remove_file(tmp_file)
    /\ UNCHANGED <<request_json, wrote, slither_read>>
    /\ UNCHANGED <<supervisor, PRIVATE_KEY, handlers>>

\* The response has been sent; the slot takes the next analyze request.
AnalyzeNext(a) ==
    /\ apc[a] = "done"
    /\ apc' = [apc EXCEPT ![a] = "idle"]
    /\ request_json' = [request_json EXCEPT ![a] = NoBody]
    /\ wrote' = [wrote EXCEPT ![a] = FALSE]
    /\ slither_read' = [slither_read EXCEPT ![a] = NotRead]
    /\ analysis' = [analysis EXCEPT ![a] = NoAnalysis]
    /\ UNCHANGED tmp_file
    /\ UNCHANGED <<supervisor, PRIVATE_KEY, handlers>>

\* The service while it is not shut down, requests handled one at a time.
Next ==
    \/ StartNode
    \/ StartFails
    \/ \E r \in SeqReqs, data \in Payloads : SimulateBegin(r, data)
    \/ \E r \in SeqReqs, result \in RunResults(DeployStdouts) :
            DeployDone(r, result)
    \/ \E r \in SeqReqs, result \in RunResults(TxStdouts) : TxDone(r, result)
    \/ \E r \in SeqReqs : NextRequest(r)

Spec == Init /\ [][Next]_vars

\* Fewer payloads and command results, for the specifications whose subject
\* is the supervisor or the interleaving of requests.
ConcTxLists == {<<>>, <<TxCall1>>, <<TxCall0, TxCall1>>}

ConcPayloads ==
    {Payload(TRUE, {"bytecode", "transactions"}, JStr("0x6080"), TRUE, l) :
        l \in ConcTxLists}

ConcDeployResults ==
    {RunResult("ok", <<>>, out) :
        out \in {o \in DeployStdouts : "contractAddress" \in o.keys}}
    \cup {RunResult("CalledProcessError", <<"x">>, NoStdout)}

ConcTxResults ==
    {RunResult("ok", <<>>, out) :
        out \in {o \in TxStdouts : "transactionHash" \in o.keys}}
    \cup {RunResult("CalledProcessError", <<"x">>, NoStdout),
          RunResult("TimeoutExpired", <<>>, NoStdout)}

\* The whole life of the process: module load, requests, interpreter exit.
NextLifecycle ==
    \/ StartNode
    \/ StartFails
    \/ Exit
    \/ Exited
    \/ \E r \in SeqReqs, data \in ConcPayloads : SimulateBegin(r, data)
    \/ \E r \in SeqReqs, result \in ConcDeployResults : DeployDone(r, result)
    \/ \E r \in SeqReqs, result \in ConcTxResults : TxDone(r, result)
    \/ \E r \in SeqReqs : NextRequest(r)

SpecLifecycle == Init /\ [][NextLifecycle]_vars

\* The supervisor with cleanup() called at any time, any number of times.
NextSupervisor ==
    \/ StartNode
    \/ StartFails
    \/ CallCleanup
    \/ \E r \in SeqReqs, data \in ConcPayloads : SimulateBegin(r, data)
    \/ \E r \in SeqReqs, result \in ConcDeployResults : DeployDone(r, result)
    \/ \E r \in SeqReqs, result \in ConcTxResults : TxDone(r, result)
    \/ \E r \in SeqReqs : NextRequest(r)

SpecSupervisor == Init /\ [][NextSupervisor]_vars

\* Requests handled concurrently, one per slot.
NextConc ==
    \/ StartNode
    \/ StartFails
    \/ Exit
    \/ Exited
    \/ \E r \in Reqs, data \in ConcPayloads : SimulateBegin(r, data)
    \/ \E r \in Reqs, result \in ConcDeployResults : DeployDone(r, result)
    \/ \E r \in Reqs, result \in ConcTxResults : TxDone(r, result)
    \/ \E r \in Reqs : NextRequest(r)

SpecConc == Init /\ [][NextConc]_vars

\* The analyzer service with one analyze request at a time.
NextAnalyzeOne ==
    \/ \E a \in OneAnalysis, body \in Bodies : AnalyzeBegin(a, body)
    \/ \E a \in OneAnalysis : SlitherReads(a)
    \/ \E a \in OneAnalysis, result \in SlitherResults : AnalyzeDone(a, result)
    \/ \E a \in OneAnalysis : AnalyzeNext(a)

SpecAnalyzeOne == Init /\ [][NextAnalyzeOne]_vars

\* The analyzer service with analyze requests in flight at once.
NextAnalyze ==
    \/ \E a \in AReqs, body \in Bodies : AnalyzeBegin(a, body)
    \/ \E a \in AReqs : SlitherReads(a)
    \/ \E a \in AReqs, result \in SlitherResults : AnalyzeDone(a, result)
    \/ \E a \in AReqs : AnalyzeNext(a)

SpecAnalyze == Init /\ [][NextAnalyze]_vars

\* subprocess.run is given timeout=30, so every command a handler is blocked
\* on ends: the step that takes its result is fair.
CommandsEnd ==
    \A r \in SeqReqs :
        /\ WF_vars(\E result \in RunResults(DeployStdouts) :
                       DeployDone(r, result))
        /\ WF_vars(\E result \in RunResults(TxStdouts) : TxDone(r, result))

SpecLive == Init /\ [][Next]_vars /\ CommandsEnd

\* ------------------------------------------------- vocabulary of the claims
Done(r) == pc[r] = "done"
Txs(r) == GetTransactions(request[r])
Configured == PRIVATE_KEY.t = "str" /\ PRIVATE_KEY.v # ""

\* `bytecode` is absent (no such key, or no object to hold it), null or empty.
BytecodeAbsentOrEmpty(data) ==
    \/ ~data.isObject
    \/ "bytecode" \notin data.keys
    \/ data.bytecode = JNull
    \/ data.bytecode = JStr("")

ValidBytecode(data) ==
    /\ data.isObject
    /\ "bytecode" \in data.keys
    /\ data.bytecode.t = "str"
    /\ data.bytecode.v # ""

\* A transaction as section 3 of the specification wants it: an object with a
\* string `function_signature` and a list `args` of strings.
WellFormed(tx) ==
    /\ tx.type = "dict"
    /\ tx.keys = BothKeys
    /\ tx.function_signature.t = "str"
    /\ tx.argsType = "list"
    /\ \A k \in 1..Len(tx.args) : tx.args[k].t = "str"

\* A malformed transaction: not an object, or without `function_signature`,
\* or without `args`, or with `args` that is not a list.
Malformed(tx) ==
    \/ tx.type # "dict"
    \/ ~(BothKeys \subseteq tx.keys)
    \/ tx.argsType # "list"

TxList(r) == request[r].isObject /\ TransactionsIterable(request[r])
AllWellFormed(r) == TxList(r) /\ \A k \in 1..Len(Txs(r)) : WellFormed(Txs(r)[k])
MalformedAt(r) == {k \in 1..Len(Txs(r)) : Malformed(Txs(r)[k])}
HasMalformed(r) == TxList(r) /\ MalformedAt(r) # {}
FirstMalformed(r) == CHOOSE k \in MalformedAt(r) : \A m \in MalformedAt(r) : k <= m

DeployCalls(r) == SelectSeq(calls[r], LAMBDA c : c.op = "deploy")
TxCalls(r) == SelectSeq(calls[r], LAMBDA c : c.op = "tx")

\* The command ended with exit status 0 and printed the JSON the handler reads.
Succeeded(c, key) ==
    c.result.kind = "ok" /\ c.result.stdout.parses /\ key \in c.result.stdout.keys
Failed(c) == c.result.kind = "CalledProcessError"
TimedOut(c) == c.result.kind = "TimeoutExpired"

DeploySucceeded(r) ==
    calls[r] # <<>> /\ calls[r][1].op = "deploy"
    /\ Succeeded(calls[r][1], "contractAddress")
DeployFailed(r) ==
    calls[r] # <<>> /\ calls[r][1].op = "deploy" /\ Failed(calls[r][1])

\* Every transaction command of the request that has ended ended with exit
\* status 0 and its transaction hash, with a non-zero exit status, or timed out.
NoOtherError(r) ==
    \A k \in 1..Len(TxCalls(r)) :
        \/ Succeeded(TxCalls(r)[k], "transactionHash")
        \/ Failed(TxCalls(r)[k])
        \/ TimedOut(TxCalls(r)[k])

\* d is s without its leading and trailing whitespace.
IsTrimOf(d, s) ==
    \E a \in 0..Len(s) : \E b \in a..Len(s) :
        /\ d = SubSeq(s, a + 1, b)
        /\ \A k \in 1..a : s[k] \in Whitespace
        /\ \A k \in (b + 1)..Len(s) : s[k] \in Whitespace
        /\ d # <<>> => (d[1] \notin Whitespace /\ d[Len(d)] \notin Whitespace)

Padded(s) ==
    /\ s # <<>>
    /\ s[1] \in Whitespace \/ s[Len(s)] \in Whitespace
    /\ \E k \in 1..Len(s) : s[k] \notin Whitespace

\* ------------------------------------------------------------------ claims

\* C1 (as stated): every request whose `bytecode` is absent or empty is
\* answered 400, and no external command is invoked for it.
C1_MissingBytecode400 ==
    \A r \in Reqs :
        (Done(r) /\ BytecodeAbsentOrEmpty(request[r]))
            => (response[r].status = 400 /\ calls[r] = <<>>)

\* C1 (amended): for a request whose `bytecode` is absent or empty no external
\* command is ever invoked; the response is 400 when the signing credential
\* is configured and the body is a JSON object, and 500 otherwise.
C1_MissingBytecodeRejected ==
    \A r \in Reqs :
        BytecodeAbsentOrEmpty(request[r]) =>
            /\ calls[r] = <<>>
            /\ Done(r) =>
                 response[r].status =
                     IF Configured /\ request[r].isObject THEN 400 ELSE 500

C1_Witness ==
    \E r \in Reqs :
        /\ Done(r) /\ Configured
        /\ request[r].isObject
        /\ request[r].keys = {"bytecode", "transactions"}
        /\ request[r].bytecode = JStr("")
        /\ Len(Txs(r)) > 0 /\ AllWellFormed(r)
        /\ response[r].status = 400
        /\ calls[r] = <<>>

\* C2: when all n transactions of a request are well-formed (and the contract
\* was deployed), the response has n outcomes, in input order, and
\* outcomes[i].transaction is transactions[i], whatever the result of each
\* transaction command: success, failure, timeout or unparseable output.
C2_OneOutcomePerTransaction ==
    \A r \in Reqs :
        (Done(r) /\ DeploySucceeded(r) /\ AllWellFormed(r)
         /\ NoOtherError(r))
            => /\ "outcomes" \in response[r].keys
               /\ Len(response[r].outcomes) = Len(Txs(r))
               /\ \A k \in 1..Len(Txs(r)) :
                      response[r].outcomes[k].transaction = Txs(r)[k]

\* The cases of C3: the contract was deployed, the transactions are
\* well-formed, and every transaction command ended with exit status 0 and
\* its transaction hash or with a non-zero exit status.
C3_Case(r) ==
    /\ Done(r) /\ DeploySucceeded(r) /\ AllWellFormed(r)
    /\ \A k \in 1..Len(TxCalls(r)) :
           Succeeded(TxCalls(r)[k], "transactionHash") \/ Failed(TxCalls(r)[k])

\* Every transaction's command was invoked, in order, and the response is 200
\* with one outcome per transaction.
C3_AllInvoked(r) ==
    /\ response[r].status = 200
    /\ Len(TxCalls(r)) = Len(Txs(r))
    /\ Len(response[r].outcomes) = Len(Txs(r))
    /\ \A k \in 1..Len(Txs(r)) : TxCalls(r)[k].index = k - 1

\* C3 (as stated): a transaction command that fails with a non-zero exit
\* status never aborts the sequence: every command is invoked, the response is
\* 200, and outcome i is "failed" with error_details equal to the captured
\* stderr exactly when command i failed, "success" with its tx_hash otherwise.
C3_FailedOutcomeRawStderr ==
    \A r \in Reqs :
        C3_Case(r) =>
            /\ C3_AllInvoked(r)
            /\ \A k \in 1..Len(Txs(r)) :
                   LET c == TxCalls(r)[k]
                       o == response[r].outcomes[k]
                   IN  IF Failed(c)
                       THEN o.status = "failed"
                            /\ o.error_details = c.result.stderr
                       ELSE o.status = "success"
                            /\ o.tx_hash = c.result.stdout.transactionHash

\* C3 (amended): as stated, except that error_details is the captured stderr
\* without its leading and trailing whitespace.
C3_FailuresNeverAbort ==
    \A r \in Reqs :
        C3_Case(r) =>
            /\ C3_AllInvoked(r)
            /\ \A k \in 1..Len(Txs(r)) :
                   LET c == TxCalls(r)[k]
                       o == response[r].outcomes[k]
                   IN  IF Failed(c)
                       THEN o.status = "failed"
                            /\ IsTrimOf(o.error_details, c.result.stderr)
                       ELSE o.status = "success"
                            /\ o.tx_hash = c.result.stdout.transactionHash

C3_Witness ==
    \E r \in Reqs :
        /\ C3_Case(r)
        /\ Len(Txs(r)) >= 2
        /\ Failed(TxCalls(r)[1]) /\ Padded(TxCalls(r)[1].result.stderr)
        /\ ~Failed(TxCalls(r)[2])
        /\ response[r].status = 200
        /\ response[r].outcomes[1].status = "failed"
        /\ response[r].outcomes[2].status = "success"

\* C4: a transaction command that exceeds its timeout gives a "failed" outcome
\* for its index only: the remaining transactions are still executed and the
\* request still returns 200.
C4_TimeoutIsolated ==
    \A r \in Reqs :
        (Done(r) /\ DeploySucceeded(r) /\ AllWellFormed(r)
         /\ \E k \in 1..Len(TxCalls(r)) : TimedOut(TxCalls(r)[k]))
            => /\ response[r].status = 200
               /\ Len(TxCalls(r)) = Len(Txs(r))
               /\ Len(response[r].outcomes) = Len(Txs(r))
               /\ \A k \in 1..Len(TxCalls(r)) :
                      TimedOut(TxCalls(r)[k])
                          => response[r].outcomes[k].status = "failed"

\* C5 (as stated): if the deployment command fails with a non-zero exit status
\* and stderr X, the response is 400 with `details` X and without `outcomes`,
\* and no transaction command is invoked.
C5_DeployFailedRawStderr ==
    \A r \in Reqs :
        (Done(r) /\ DeployFailed(r))
            => /\ response[r].status = 400
               /\ "details" \in response[r].keys
               /\ response[r].details = calls[r][1].result.stderr
               /\ "outcomes" \notin response[r].keys
               /\ TxCalls(r) = <<>>

\* C5 (amended): as stated, except that `details` is X without its leading
\* and trailing whitespace.
C5_DeployFailed400 ==
    \A r \in Reqs :
        DeployFailed(r)
            => /\ Done(r)
               /\ response[r].status = 400
               /\ "details" \in response[r].keys
               /\ IsTrimOf(response[r].details, calls[r][1].result.stderr)
               /\ "outcomes" \notin response[r].keys
               /\ TxCalls(r) = <<>>

C5_Witness ==
    \E r \in Reqs :
        /\ Done(r) /\ DeployFailed(r)
        /\ Padded(calls[r][1].result.stderr)
        /\ Len(Txs(r)) > 0 /\ AllWellFormed(r)
        /\ response[r].status = 400

\* C6: a request that contains a malformed transaction is rejected without any
\* transaction command having been executed for it, wherever the malformed
\* item is in the list.
C6_MalformedRunsNothing ==
    \A r \in Reqs :
        HasMalformed(r)
            => /\ TxCalls(r) = <<>>
               /\ Done(r) => response[r].status # 200

\* C7: if the contract was deployed and some transaction is malformed, the
\* response is 400, names the smallest malformed index and carries no
\* outcomes. (Stated for the requests whose earlier commands ended with exit
\* status 0 and a transaction hash, with a non-zero exit status, or timed out.)
C7_MalformedNamesFirstIndex ==
    \A r \in Reqs :
        (Done(r) /\ DeploySucceeded(r) /\ HasMalformed(r)
         /\ NoOtherError(r)
         /\ (\A k \in 1..Len(Txs(r)) :
                WellFormed(Txs(r)[k]) \/ Malformed(Txs(r)[k])))
            => /\ response[r].status = 400
               /\ response[r].index = FirstMalformed(r) - 1
               /\ "outcomes" \notin response[r].keys

\* C8: with a valid `bytecode`, an empty `transactions` list and a successful
\* deployment, the response is 200, `outcomes` is the empty sequence and
\* `contract_address` is the address this request's deployment returned.
C8_EmptyTransactions ==
    \A r \in Reqs :
        (Done(r) /\ ValidBytecode(request[r]) /\ TxList(r) /\ Txs(r) = <<>>
         /\ DeploySucceeded(r))
            => /\ response[r].status = 200
               /\ "outcomes" \in response[r].keys
               /\ response[r].outcomes = <<>>
               /\ "contract_address" \in response[r].keys
               /\ response[r].contract_address =
                      calls[r][1].result.stdout.contractAddress
               /\ Len(calls[r]) = 1

C8_Witness ==
    \E r \in Reqs :
        /\ Done(r) /\ ValidBytecode(request[r]) /\ TxList(r)
        /\ "transactions" \in request[r].keys /\ Txs(r) = <<>>
        /\ DeploySucceeded(r)
        /\ response[r].status = 200
        /\ response[r].contract_address = "0xA2"

\* C9: while the signing credential is not configured, every request is
\* answered 500, whatever its payload, and no external command is invoked.
C9_NoCredential500 ==
    \A r \in Reqs :
        ~Configured
            => /\ calls[r] = <<>>
               /\ pc[r] \in {"idle", "done"}
               /\ Done(r) => response[r].status = 500

C9_Witness ==
    \E r \in Reqs :
        /\ ~Configured /\ PRIVATE_KEY = JStr("")
        /\ Done(r)
        /\ ValidBytecode(request[r])
        /\ Len(Txs(r)) > 0 /\ AllWellFormed(r)
        /\ response[r].status = 500
        /\ calls[r] = <<>>

\* C10: within one request the deployment command is invoked at most once and
\* the command of each transaction index at most once, so a request with n
\* transactions invokes at most 1 + n commands, whatever fails.
C10_AtMostOneAttempt ==
    \A r \in Reqs :
        /\ Len(DeployCalls(r)) <= 1
        /\ \A j, k \in 1..Len(TxCalls(r)) :
               TxCalls(r)[j].index = TxCalls(r)[k].index => j = k
        /\ Len(calls[r]) <= 1 + Len(Txs(r))

C10_Witness ==
    \E r \in Reqs :
        /\ Done(r)
        /\ Len(Txs(r)) >= 2
        /\ Len(calls[r]) = 1 + Len(Txs(r))
        /\ \E k \in 1..Len(TxCalls(r)) : Failed(TxCalls(r)[k])
        /\ \E k \in 1..Len(TxCalls(r)) : TimedOut(TxCalls(r)[k])

\* A request is being handled: its handler has started and has not returned.
Handling(r) == pc[r] \in {"deploy", "tx"}

\* C11: the service never handles a simulate request while no node process
\* is running: without the node binary the service exits without serving any
\* request, and whenever a request is being handled the node is `running`.
C11_HandledOnlyWhileRunning ==
    /\ ANVIL_PROCESS = "None" => \A r \in Reqs : pc[r] = "idle"
    /\ \A r \in Reqs : Handling(r) => ANVIL_PROCESS = "running"

\* C12: the node process only moves not started -> running -> terminated: it
\* is started at most once, terminated at most once, never restarted, and no
\* step of a simulate request changes its state.
C12_LifecycleForward ==
    [][ANVIL_PROCESS' # ANVIL_PROCESS =>
          /\ <<ANVIL_PROCESS, ANVIL_PROCESS'>> \in
                 {<<"None", "running">>, <<"running", "terminated">>}
          /\ UNCHANGED handlers
          /\ ANVIL_PROCESS' = "running" => service = "loading"
          /\ ANVIL_PROCESS' = "terminated" => stops' = 1]_vars

C12_Witness ==
    /\ ANVIL_PROCESS = "terminated" /\ stops = 1
    /\ \E r \in Reqs : Done(r) /\ response[r].status = 200 /\ Len(calls[r]) > 1

\* C13: cleanup() called when the process was never started, or called again
\* after the process has terminated, raises no error and leaves the state of
\* the process as it was.
C13_StopIdempotent ==
    [][(stops' = stops + 1 /\ ANVIL_PROCESS \in {"None", "terminated"})
          => (ANVIL_PROCESS' = ANVIL_PROCESS /\ raised' = FALSE)]_vars

C13_Witness ==
    /\ stops >= 2
    /\ ANVIL_PROCESS = "terminated"
    /\ ~raised

\* C14: once cleanup() has been called, no simulate request invokes a
\* deployment or transaction command any more, the requests that were in
\* flight when the shutdown began included.
C14_NoCommandAfterStop ==
    [][stops >= 1 =>
          \A r \in Reqs : Len(calls'[r]) <= Len(calls[r])]_vars

\* C15: when the first malformed transaction is at index k and the contract
\* was deployed, then by the time the 400 is returned the deployment command
\* and the commands of exactly the transactions 0..k-1 have each been invoked
\* once, in index order, and no command of an index >= k.
C15_PrefixExecutedBefore400 ==
    \A r \in Reqs :
        (Done(r) /\ DeploySucceeded(r) /\ HasMalformed(r)
         /\ response[r].status = 400)
            => /\ Len(calls[r]) = FirstMalformed(r)
               /\ \A k \in 2..Len(calls[r]) :
                      calls[r][k].op = "tx" /\ calls[r][k].index = k - 2
               /\ response[r].index = FirstMalformed(r) - 1

C15_Witness ==
    \E r \in Reqs :
        /\ Done(r) /\ DeploySucceeded(r) /\ HasMalformed(r)
        /\ FirstMalformed(r) >= 2
        /\ response[r].status = 400
        /\ Len(TxCalls(r)) = FirstMalformed(r) - 1

\* The contract address a transaction command is sent to.
Target(c) == c.argv[8]

\* C16: within one request the one deployment command has ended successfully
\* before any transaction command is invoked, the transaction commands are
\* invoked in list order, each after the one before it has ended, and each is
\* sent to the address this request's deployment returned, also while other
\* requests deploy.
C16_DeployThenInOrder ==
    \A r \in Reqs :
        /\ Len(DeployCalls(r)) <= 1
        /\ \A k \in 1..Len(calls[r]) :
               /\ k < Len(calls[r]) => calls[r][k].result # Pending
               /\ k = 1 => calls[r][k].op = "deploy"
               /\ k > 1 =>
                    /\ Succeeded(calls[r][1], "contractAddress")
                    /\ calls[r][k].op = "tx"
                    /\ calls[r][k].index = k - 2
                    /\ calls[r][k].argv[9] =
                           Txs(r)[k - 1].function_signature
                    /\ Target(calls[r][k]) =
                           JStr(calls[r][1].result.stdout.contractAddress)

C16_Witness ==
    \E r, q \in Reqs :
        /\ Len(TxCalls(r)) >= 2 /\ Len(TxCalls(q)) >= 1
        /\ Handling(r) /\ Handling(q)
        /\ Target(TxCalls(r)[1]) # Target(TxCalls(q)[1])

\* The outcome o reports the transaction tx and the result of its command c.
Reports(o, tx, c) ==
    /\ o.transaction = tx
    /\ IF Failed(c)
       THEN o.status = "failed" /\ IsTrimOf(o.error_details, c.result.stderr)
       ELSE /\ Succeeded(c, "transactionHash")
            /\ o.status = "success"
            /\ o.tx_hash = c.result.stdout.transactionHash

\* C18: under any interleaving of the requests in flight, the outcomes of a
\* 200 response are the outcomes of that request's own transactions, in its
\* order, and its contract_address is the address of its own deployment.
C18_ReportsIsolated ==
    \A r \in Reqs :
        (Done(r) /\ response[r].status = 200) =>
            /\ DeploySucceeded(r)
            /\ response[r].contract_address =
                   calls[r][1].result.stdout.contractAddress
            /\ Len(response[r].outcomes) = Len(Txs(r))
            /\ Len(TxCalls(r)) = Len(Txs(r))
            /\ \A k \in 1..Len(Txs(r)) :
                   Reports(response[r].outcomes[k], Txs(r)[k], TxCalls(r)[k])

C18_Witness ==
    \E r, q \in Reqs :
        /\ Done(r) /\ response[r].status = 200
        /\ Len(response[r].outcomes) >= 2
        /\ Handling(q) /\ Len(TxCalls(q)) >= 1
        /\ simulation_results[q].contract_address # response[r].contract_address
        /\ simulation_results[q].outcomes # <<>>
        /\ simulation_results[q].outcomes[1] # response[r].outcomes[1]

\* C20: if every external command ends (completes, fails or times out), every
\* simulate request ends with exactly one response, of status 200, 400 or 500:
\* the handler never blocks for ever and never answers twice.
C20_EveryRequestAnswered ==
    /\ \A r \in SeqReqs : Handling(r) ~> Done(r)
    /\ [](\A r \in Reqs :
             /\ Done(r) <=> response[r] # NoResponse
             /\ Done(r) => response[r].status \in {200, 400, 500})
    /\ [][\A r \in Reqs :
             response[r] # NoResponse
                 => response'[r] \in {response[r], NoResponse}]_vars

C20_Witness ==
    \E r \in SeqReqs :
        /\ Done(r)
        /\ Len(Txs(r)) >= 2
        /\ Len(calls[r]) = 1 + Len(Txs(r))
        /\ \E k \in 1..Len(TxCalls(r)) : TimedOut(TxCalls(r)[k])
        /\ response[r].status = 500

\* C17: the temporary file is scoped to one request: with two analyze
\* requests in flight, between a request's write and the end of its analyzer
\* run the file is there and holds what this request wrote, and the analyzer
\* of a request reads only the code that this request wrote.
C17_FileNotShared ==
    \A a \in AReqs :
        /\ apc[a] = "run" => tmp_file = File(TRUE, request_json[a].code)
        /\ slither_read[a].done =>
               /\ slither_read[a].found
               /\ slither_read[a].content = request_json[a].code

\* C19: for an analyze request run in isolation the file does not exist when
\* the response is returned, on every path that created it, and a request
\* rejected with 400 by the validation never creates the file.
C19_FileRemovedOnEveryPath ==
    \A a \in OneAnalysis :
        /\ apc[a] = "done" => ~tmp_file.exists
        /\ (apc[a] = "done" /\ analysis[a].status = 400) => ~wrote[a]
        /\ apc[a] = "run" => (wrote[a] /\ tmp_file.exists)

C19_Witness ==
    \E a \in OneAnalysis :
        /\ apc[a] = "done" /\ wrote[a]
        /\ analysis[a].status = 500
        /\ analysis[a].error = "Analysis timed out after 60 seconds."
        /\ ~slither_read[a].done
        /\ ~tmp_file.exists

====
